---- MODULE Spec2Model ----
(***************************************************************************)
(* A model of the aios-quantum broker.                                     *)
(*                                                                         *)
(*   Spec          the heartbeat scheduler (heartbeat/scheduler.py):       *)
(*                 QuantumHeartbeat.__init__, single_beat, start, stop     *)
(*   SpecRegistry  the provider registry (providers.py):                   *)
(*                 ProviderRegistry.select_provider, run_heartbeat_circuit *)
(*   SpecTracker   one JobTracker and its ledger file                      *)
(*                 (quantum_jobs/tracker.py), with writes that fail        *)
(*   SpecWriters   two JobTracker instances on one ledger file             *)
(*   SpecManager   one QuantumJobManager (quantum_jobs/manager.py):        *)
(*                 submit_parallel, poll_pending, collect_completed        *)
(*   SpecBudget    HeartbeatConfig.beats_remaining, called with any        *)
(*                 number of used seconds                                  *)
(*   SpecQueue     one TaskQueue directory (tasks/task_queue.py): add_task,*)
(*                 claim_next_task, complete_active_task, fail_active_task *)
(*                                                                         *)
(* Seconds are integers (one unit = one second of measured wall time).     *)
(***************************************************************************)
EXTENDS Integers, Sequences, FiniteSets, TLC

\* ------------------------------------------------------------------ bounds
MaxMonthlySeconds == 3      \* config.max_monthly_seconds used by the model
MaxExecTime == 2            \* longest measured execution time of one beat
MaxRestarts == 1            \* scheduler instances constructed after the first
MaxBeatsArg == 1            \* largest max_beats argument given to start()
MaxPriorityLen == 2         \* longest caller-supplied priority list
MaxFaults == 1              \* ledger writes that fail or are cut short by a crash
MaxTasks == 3               \* tasks given to add_task of one TaskQueue

None == "None"

Min(a, b) == IF a < b THEN a ELSE b

VARIABLES
    \* --- QuantumHeartbeat (scheduler.py:171-187)
    config,          \* HeartbeatConfig of the running instance
    beat_count,      \* self.beat_count
    budget_used,     \* self.budget_used
    results,         \* self.results
    running,         \* self.running
    runtime,         \* self._runtime
    backend,         \* self._backend
    rotation_index,  \* self._rotation_index
    rotation_file,   \* content of config.rotation_index_file: <<>> missing, <<n>>
    pc,              \* position of start(): "idle", "loop", "check", "sleep", "crashed"
    max_beats,       \* argument of the running start(); 0 is None
    \* --- history of the scheduler (not program state)
    restarts,        \* instances constructed after the first
    month_used,      \* seconds consumed by all instances so far, counted up to the ceiling
    last,            \* what the tick that just returned did (NoTick once start() moves on)
    \* --- ProviderRegistry (providers.py:571-578) and its providers
    priority,        \* self._priority
    usable,          \* providers whose credentials and service work right now
    cached,          \* providers holding a cached service/provider handle
    call,            \* the last registry call and what it did
    \* --- JobTracker instances and their ledger file (quantum_jobs/tracker.py)
    faults,          \* ledger writes that went wrong so far
    ledger,          \* content of tracker_path
    jobs,            \* self._jobs of every JobTracker instance
    alive,           \* the instances whose process is running
    \* --- QuantumJobManager (quantum_jobs/manager.py) and the remote service
    remote,          \* the jobs the remote service holds, and their status
    sp,              \* the running or last submit_parallel call
    artifacts,       \* result files written to results_dir, per job id
    mcall,           \* the last poll_pending or collect_completed call
    returned,        \* how often collect_completed has returned each job id
    \* --- a caller of HeartbeatConfig.beats_remaining (scheduler.py:63-66)
    used_seconds,    \* the argument of the last call
    beats_left,      \* what the last call returned
    \* --- the directory of a TaskQueue (tasks/task_queue.py:145-159)
    pending_json,    \* content of pending.json, a list of task dicts
    active_json,     \* content of active.json, a list of task dicts
    completed_dir,   \* completed/<id>.json: the archived dict of each task id
    added,           \* history: the ids of the tasks given to add_task so far
    qcall            \* the last queue call and what it returned

svars == <<config, beat_count, budget_used, results, running, runtime, backend,
           rotation_index, rotation_file, pc, max_beats, restarts, month_used,
           last>>
rvars == <<priority, usable, cached, call>>
jvars == <<faults, ledger, jobs, alive, remote, sp, artifacts, mcall, returned>>
bvars == <<used_seconds, beats_left>>
qvars == <<pending_json, active_json, completed_dir, added, qcall>>
vars == <<svars, rvars, jvars, bvars, qvars>>

\* =========================================================================
\*                              SCHEDULER
\* =========================================================================

\* a decimal fraction of seconds, as the quotient of two integers
Decimal(n, d) == [num |-> n, den |-> d]

RotationChoices == { <<>>, <<"ibm_fez", "ibm_torino">> }

\* HeartbeatConfig: the simulator, real hardware with and without a rotation
\* list, and a dry run (backend_rotation is read in real mode only, and a dry run
\* returns before it reads anything else)
Config(sim, dry, rotation) ==
    [ use_simulator |-> sim, dry_run |-> dry, backend_rotation |-> rotation,
      max_monthly_seconds |-> MaxMonthlySeconds,
      estimated_seconds_per_beat |-> Decimal(8, 10) ]

Configs ==
    { Config(TRUE, FALSE, <<>>), Config(FALSE, TRUE, <<>>) }
    \cup { Config(FALSE, FALSE, r) : r \in RotationChoices }

\* What the environment does to a tick: "ok", or the first stage that raises.
\*   connect  QuantumRuntime() / the simulator import raises
\*   backend  service.backend(name) / get_least_busy_backend raises
\*   build    _create_heartbeat_circuit raises
\*   execute  transpile / sampler.run / job.result raises
\*   persist  _save_result raises
Envs == {"ok", "connect", "backend", "build", "execute", "persist"}

NoTick == [outcome |-> "none", steps |-> {}]

\* _load_rotation_index
LoadRotationIndex(file) == IF file = <<>> THEN 0 ELSE file[1]

\* _save_rotation_index writing the index before its increment (a mutant of
\* SaveRotationIndex)
SaveRotationIndexBefore(file, index, wok) == IF wok THEN <<index - 1>> ELSE file

\* _save_rotation_index: an IOError is logged and the file keeps its content
SaveRotationIndex(file, index, wok) == IF wok THEN <<index>> ELSE file

\* the budget check of single_beat: the tick goes on iff this holds
AdmitAtCeiling(used, ceiling) == used <= ceiling
Admit(used, ceiling) == ~(used >= ceiling)

\* self.budget_used += execution_time
RecordNothing(used, t) == used
Record(used, t) == used + t

\* the try/except of single_beat: which stages' exceptions are caught
CaughtExecuteOnly(stage) == stage \in {"execute"}
Caught(stage) == stage \in {"connect", "backend", "build", "execute", "persist"}

\* The scheduler's own fields, as a record
Self ==
    [ beat_count |-> beat_count, budget_used |-> budget_used, results |-> results,
      runtime |-> runtime, backend |-> backend,
      rotation_index |-> rotation_index, rotation_file |-> rotation_file ]

\* _get_runtime: the fields after the call, and whether it raised
GetRuntime(s, cfg, env, wok) ==
    IF s.runtime # None
    THEN [s |-> s, raised |-> FALSE]
    ELSE IF cfg.use_simulator
    THEN IF env = "connect"
         THEN [s |-> s, raised |-> TRUE]
         ELSE [s |-> [s EXCEPT !.backend = "statevector_sampler"], raised |-> FALSE]
    ELSE IF env = "connect"
    THEN [s |-> s, raised |-> TRUE]
    ELSE LET s1 == [s EXCEPT !.runtime = "QuantumRuntime"]
         IN  IF cfg.backend_rotation # <<>>
             THEN LET backends == cfg.backend_rotation
                      name == backends[(s1.rotation_index % Len(backends)) + 1]
                      s2 == [s1 EXCEPT
                               !.rotation_index = s1.rotation_index + 1,
                               !.rotation_file =
                                   SaveRotationIndex(s1.rotation_file,
                                                     s1.rotation_index + 1, wok)]
                  IN  IF env = "backend"
                      THEN [s |-> s2, raised |-> TRUE]
                      ELSE [s |-> [s2 EXCEPT !.backend = name], raised |-> FALSE]
             ELSE IF env = "backend"
                  THEN [s |-> s1, raised |-> TRUE]
                  ELSE [s |-> [s1 EXCEPT !.backend = "ibm_brisbane"],
                        raised |-> FALSE]

\* HeartbeatResult numbered like the log line "Heartbeat #{beat_count + 1}"
\* (a mutant of HeartbeatResult)
HeartbeatResultFromOne(count, backend_name, t, used, ceiling) ==
    [ beat_number |-> count + 1,
      backend_name |-> backend_name,
      execution_time_seconds |-> t,
      budget_used_total |-> used,
      budget_remaining |-> ceiling - used ]

\* HeartbeatResult(beat_number=self.beat_count, ...): the fields the model keeps
HeartbeatResult(count, backend_name, t, used, ceiling) ==
    [ beat_number |-> count,
      backend_name |-> backend_name,
      execution_time_seconds |-> t,
      budget_used_total |-> used,
      budget_remaining |-> ceiling - used ]

\* what a tick did: how it ended and the steps it went through
Tick(outcome, steps) == [outcome |-> outcome, steps |-> steps]

\* single_beat: the fields after the call and what the tick did.
\* outcome: "refused", "dry_run", "ok", or the stage that raised.
single_beat(s, cfg, env, t, wok) ==
    IF ~Admit(s.budget_used, cfg.max_monthly_seconds)
    THEN [s |-> s, tick |-> Tick("refused", {})]
    ELSE IF cfg.dry_run
    THEN [s |-> s, tick |-> Tick("dry_run", {})]
    ELSE
    LET g == GetRuntime(s, cfg, env, wok) IN
    IF g.raised
    THEN [s |-> g.s, tick |-> Tick(env, {"resolve"})]
    ELSE IF env = "build"
    THEN [s |-> g.s, tick |-> Tick("build", {"resolve", "build"})]
    ELSE IF ~cfg.use_simulator /\ g.s.backend = None
    THEN \* SamplerV2(None) or backend.name raises before the time is taken
         [s |-> g.s, tick |-> Tick("execute", {"resolve", "build", "execute"})]
    ELSE IF env = "execute"
    THEN [s |-> g.s, tick |-> Tick("execute", {"resolve", "build", "execute"})]
    ELSE
    LET backend_name == IF cfg.use_simulator THEN "statevector_sampler"
                        ELSE g.s.backend
        used == Record(g.s.budget_used, t)
        s3 == [g.s EXCEPT !.budget_used = used]
        result == HeartbeatResult(s3.beat_count, backend_name, t, used,
                                  cfg.max_monthly_seconds)
    IN  IF env = "persist"
        THEN [s |-> s3,
              tick |-> Tick("persist",
                            {"resolve", "build", "execute", "record", "persist"})]
        ELSE [s |-> [s3 EXCEPT !.beat_count = s3.beat_count + 1,
                               !.results = Append(s3.results, result)],
              tick |-> Tick("ok",
                            {"resolve", "build", "execute", "record", "persist"})]

\* An environment that names a stage the tick cannot reach is the same tick as "ok".
EnvApplies(cfg, env) ==
    \/ env \in {"ok", "build", "execute", "persist"}
    \/ env = "connect" /\ runtime = None
    \/ env = "backend" /\ runtime = None /\ ~cfg.use_simulator

\* One call of single_beat on the running instance; pcNext is where start()
\* stands after it returns.
DoBeat(pcNext) ==
    \E env \in Envs, t \in 1..MaxExecTime, wok \in BOOLEAN :
        /\ EnvApplies(config, env)
        /\ LET r == single_beat(Self, config, env, t, wok)
               raised == r.tick.outcome \in Envs \ {"ok"}
           IN  /\ beat_count' = r.s.beat_count
               /\ budget_used' = r.s.budget_used
               /\ results' = r.s.results
               /\ runtime' = r.s.runtime
               /\ backend' = r.s.backend
               /\ rotation_index' = r.s.rotation_index
               /\ rotation_file' = r.s.rotation_file
               /\ last' = r.tick
               /\ month_used' = Min(month_used + (r.s.budget_used - budget_used),
                                    config.max_monthly_seconds)
               /\ pc' = IF raised /\ ~Caught(r.tick.outcome) THEN "crashed" ELSE pcNext
        /\ UNCHANGED <<config, running, max_beats, restarts, rvars, jvars, bvars, qvars>>

\* a direct call of single_beat (the tests, run_heartbeat.py)
SingleBeat ==
    /\ pc = "idle"
    /\ DoBeat("idle")

\* start(max_beats): self.running = True
Start ==
    /\ pc = "idle"
    /\ \E mb \in 0..MaxBeatsArg :
        /\ max_beats' = mb
        /\ running' = TRUE
        /\ pc' = "loop"
    /\ last' = NoTick
    /\ UNCHANGED <<config, beat_count, budget_used, results, runtime, backend,
                   rotation_index, rotation_file, restarts, month_used, rvars, jvars, bvars, qvars>>

\* while self.running: result = self.single_beat()
LoopBeat ==
    /\ pc = "loop"
    /\ running
    /\ DoBeat("check")

\* while self.running is false: the loop ends
LoopExit ==
    /\ pc = "loop"
    /\ ~running
    /\ pc' = "idle"
    /\ running' = FALSE
    /\ UNCHANGED <<config, beat_count, budget_used, results, runtime, backend,
                   rotation_index, rotation_file, max_beats, restarts, month_used,
                   last, rvars, jvars, bvars, qvars>>

\* the stopping conditions after the beat
LoopCheck ==
    /\ pc = "check"
    /\ IF (max_beats # 0 /\ beat_count >= max_beats)
          \/ budget_used >= config.max_monthly_seconds
       THEN pc' = "idle" /\ running' = FALSE
       ELSE pc' = "sleep" /\ running' = running
    /\ last' = NoTick
    /\ UNCHANGED <<config, beat_count, budget_used, results, runtime, backend,
                   rotation_index, rotation_file, max_beats, restarts, month_used,
                   rvars, jvars, bvars, qvars>>

\* time.sleep(interval_seconds) returns
Sleep ==
    /\ pc = "sleep"
    /\ pc' = "loop"
    /\ UNCHANGED <<config, beat_count, budget_used, results, running, runtime,
                   backend, rotation_index, rotation_file, max_beats, restarts,
                   month_used, last, rvars, jvars, bvars, qvars>>

\* KeyboardInterrupt in the loop
Interrupt ==
    /\ pc \in {"loop", "check", "sleep"}
    /\ pc' = "idle"
    /\ running' = FALSE
    /\ last' = NoTick
    /\ UNCHANGED <<config, beat_count, budget_used, results, runtime, backend,
                   rotation_index, rotation_file, max_beats, restarts, month_used,
                   rvars, jvars, bvars, qvars>>

\* stop(), from a signal handler or another thread
Stop ==
    /\ running
    /\ running' = FALSE
    /\ UNCHANGED <<config, beat_count, budget_used, results, runtime, backend,
                   rotation_index, rotation_file, pc, max_beats, restarts,
                   month_used, last, rvars, jvars, bvars, qvars>>

\* QuantumHeartbeat.__init__ in a new process, same configuration and disk
Restart ==
    /\ restarts < MaxRestarts
    /\ restarts' = restarts + 1
    /\ beat_count' = 0
    /\ budget_used' = 0
    /\ results' = <<>>
    /\ running' = FALSE
    /\ runtime' = None
    /\ backend' = None
    /\ rotation_index' = LoadRotationIndex(rotation_file)
    /\ pc' = "idle"
    /\ max_beats' = 0
    /\ last' = NoTick
    /\ UNCHANGED <<config, rotation_file, month_used, rvars, jvars, bvars, qvars>>

\* =========================================================================
\*                          PROVIDER REGISTRY
\* =========================================================================

\* ProviderRegistry.DEFAULT_PRIORITY
DefaultPriority == <<"ibm", "ionq", "qbraid", "braket", "simulator">>

\* _register_all: the five provider classes, keyed by name()
Registered == {"ibm", "ionq", "qbraid", "braket", "simulator"}

RealProviders == Registered \ {"simulator"}

\* providers whose is_available() keeps the service/provider handle it built
\* (IBMProvider._get_service, IonQProvider/QBraidProvider._get_provider)
Cacheable == {"ibm", "ionq", "qbraid"}

\* names a caller writes in a priority list
PriorityNames == {"ibm", "ionq", "braket", "simulator"}

RECURSIVE SeqsUpTo(_, _)
SeqsUpTo(S, n) ==
    IF n = 0 THEN { <<>> }
    ELSE LET shorter == SeqsUpTo(S, n - 1)
         IN  shorter \cup { Append(q, x) : q \in shorter, x \in S }

\* the priority argument of ProviderRegistry(...): None and [] are <<>>
PriorityArgs == SeqsUpTo(PriorityNames, MaxPriorityLen)

\* the preferred argument: "" is None; "aer" names no registered provider
PreferredArgs == {"", "ibm", "braket", "simulator", "aer"}

\* ProviderRegistry.__init__: self._priority = priority or DEFAULT_PRIORITY
RegistryPriority(arg) == IF arg = <<>> THEN DefaultPriority ELSE arg

\* a provider object: a registered one, or the SimulatorProvider() that
\* select_provider builds when its walk finds nothing
Provider(n) == [name |-> n, registered |-> TRUE]
FreshSimulator == [name |-> "simulator", registered |-> FALSE]

\* is_available() of the registered provider p, with u usable and c cached
IsAvailable(p, u, c) ==
    IF p = "simulator" THEN TRUE
    ELSE IF p \in Cacheable THEN p \in c \/ p \in u
    ELSE p \in u

\* the handles cached once the providers in probed have been probed
CacheAfter(c, probed, u) == c \cup (probed \cap Cacheable \cap u)

\* the walk of the priority chain: the first index from i on whose provider
\* is registered and available, 0 when there is none
RECURSIVE Walk(_, _, _, _)
Walk(prio, i, u, c) ==
    IF i > Len(prio) THEN 0
    ELSE IF prio[i] \in Registered /\ IsAvailable(prio[i], u, c) THEN i
    ELSE Walk(prio, i + 1, u, c)

\* select_provider without the preferred branch (a mutant of select_provider)
SelectIgnoringPreferred(prio, preferred, u, c) ==
    LET i == Walk(prio, 1, u, c)
    IN  IF i # 0 THEN Provider(prio[i]) ELSE FreshSimulator

\* select_provider
select_provider(prio, preferred, u, c) ==
    IF preferred # "" /\ preferred \in Registered /\ IsAvailable(preferred, u, c)
    THEN Provider(preferred)
    ELSE LET i == Walk(prio, 1, u, c)
         IN  IF i # 0 THEN Provider(prio[i]) ELSE FreshSimulator

\* the providers select_provider probes
SelectProbed(prio, preferred, u, c) ==
    LET first == IF preferred # "" /\ preferred \in Registered
                 THEN {preferred} ELSE {}
        i == Walk(prio, 1, u, c)
        upto == IF i = 0 THEN Len(prio) ELSE i
    IN  IF first # {} /\ IsAvailable(preferred, u, c) THEN first
        ELSE first \cup ({ prio[j] : j \in 1..upto } \cap Registered)

\* attempt_order after the selected provider: for name in self._priority, the
\* registered provider that is not the selected object and is available
RECURSIVE Remaining(_, _, _, _, _)
Remaining(prio, i, provider, u, c) ==
    IF i > Len(prio) THEN <<>>
    ELSE LET rest == Remaining(prio, i + 1, provider, u, c)
         IN  IF /\ prio[i] \in Registered
                /\ Provider(prio[i]) # provider
                /\ IsAvailable(prio[i], u, c)
             THEN <<Provider(prio[i])>> \o rest
             ELSE rest

AttemptOrder(prio, provider, u, c) ==
    <<provider>> \o Remaining(prio, 1, provider, u, c)

Names(order) == [ j \in 1..Len(order) |-> order[j].name ]

\* the failover loop from attempt i on: run_circuit succeeds for the providers
\* in run_ok; a failure appends (name, error) to tried. attempts lists the
\* run_circuit calls made, each with whether it returned a result.
RECURSIVE AttemptFrom(_, _, _, _, _)
AttemptFrom(order, i, run_ok, tried, attempts) ==
    IF i > Len(order)
    THEN [result |-> "RuntimeError", tried |-> tried, attempts |-> attempts]
    ELSE IF order[i].name \in run_ok
    THEN [result |-> order[i].name, tried |-> tried,
          attempts |-> Append(attempts, <<order[i].name, TRUE>>)]
    ELSE AttemptFrom(order, i + 1, run_ok,
                     Append(tried, <<order[i].name, "error">>),
                     Append(attempts, <<order[i].name, FALSE>>))

\* a loop that goes on after a success and returns the last one (a mutant)
RECURSIVE LastSuccessFrom(_, _, _, _, _, _)
LastSuccessFrom(order, i, run_ok, tried, attempts, best) ==
    IF i > Len(order)
    THEN [result |-> best, tried |-> tried, attempts |-> attempts]
    ELSE IF order[i].name \in run_ok
    THEN LastSuccessFrom(order, i + 1, run_ok, tried,
                         Append(attempts, <<order[i].name, TRUE>>), order[i].name)
    ELSE LastSuccessFrom(order, i + 1, run_ok,
                         Append(tried, <<order[i].name, "error">>),
                         Append(attempts, <<order[i].name, FALSE>>), best)

FailoverToLast(order, run_ok) ==
    LastSuccessFrom(order, 1, run_ok, <<>>, <<>>, "RuntimeError")

\* the for loop of run_heartbeat_circuit
Failover(order, run_ok) == AttemptFrom(order, 1, run_ok, <<>>, <<>>)

\* the preferred_backend argument of run_heartbeat_circuit
PreferredBackendArgs == {None, "ibm_fez"}

\* a loop that hands preferred_backend to every provider (a mutant of
\* BackendName)
BackendNameForAll(p, provider, preferred_backend) == preferred_backend

\* backend_name=preferred_backend if p is provider else None
BackendName(p, provider, preferred_backend) ==
    IF p = provider THEN preferred_backend ELSE None

NoCall ==
    [ op |-> "none", preferred |-> "", avail |-> {},
      selected |-> FreshSimulator, attempt_order |-> <<>>, attempts |-> <<>>,
      tried |-> <<>>, result |-> "", preferred_backend |-> None,
      backend_names |-> <<>> ]

\* the registered providers whose is_available() is true now
Avail(u, c) == { p \in Registered : IsAvailable(p, u, c) }

\* registry.select_provider(preferred)
SelectProvider ==
    \E preferred \in PreferredArgs :
        /\ call' = [ NoCall EXCEPT
                       !.op = "select",
                       !.preferred = preferred,
                       !.avail = Avail(usable, cached),
                       !.selected = select_provider(priority, preferred,
                                                    usable, cached) ]
        /\ cached' = CacheAfter(cached,
                                SelectProbed(priority, preferred, usable, cached),
                                usable)
        /\ UNCHANGED <<priority, usable, svars, jvars, bvars, qvars>>

\* the providers whose run_circuit can return a result: a provider that only
\* looks available through its cached handle cannot
CanRun(order, u) ==
    { order[j].name : j \in 1..Len(order) } \cap (u \cup {"simulator"})

\* run_heartbeat_circuit: what the call leaves behind
\* (backend_names: the backend_name each run_circuit call was given)
run_heartbeat_circuit(prio, preferred, preferred_backend, u, c, run_ok) ==
    LET provider == select_provider(prio, preferred, u, c)
        order == AttemptOrder(prio, provider, u, c)
        done == Failover(order, run_ok)
    IN  [ op |-> "run", preferred |-> preferred, avail |-> Avail(u, c),
          selected |-> provider, attempt_order |-> order,
          attempts |-> done.attempts, tried |-> done.tried,
          result |-> done.result, preferred_backend |-> preferred_backend,
          backend_names |->
              [ j \in 1..Len(done.attempts) |->
                    BackendName(order[j], provider, preferred_backend) ] ]

\* registry.run_heartbeat_circuit(circuit, preferred_provider=preferred,
\*                                preferred_backend=preferred_backend)
RunHeartbeatCircuit ==
    \E preferred \in PreferredArgs, preferred_backend \in PreferredBackendArgs :
        LET provider == select_provider(priority, preferred, usable, cached)
            order == AttemptOrder(priority, provider, usable, cached)
            probed == SelectProbed(priority, preferred, usable, cached)
                      \cup ({ priority[j] : j \in 1..Len(priority) } \cap Registered)
        IN  /\ \E run_ok \in SUBSET CanRun(order, usable) :
                 call' = run_heartbeat_circuit(priority, preferred,
                                               preferred_backend, usable,
                                               cached, run_ok)
            /\ cached' = CacheAfter(cached, probed, usable)
            /\ UNCHANGED <<priority, usable, svars, jvars, bvars, qvars>>

\* credentials, network or a remote service change
EnvChange ==
    \E u \in (SUBSET RealProviders) \ {usable} :
        /\ usable' = u
        /\ call' = NoCall
        /\ UNCHANGED <<priority, cached, svars, jvars, bvars, qvars>>

\* =========================================================================
\*                              JOB TRACKER
\* =========================================================================
\* quantum_jobs/tracker.py.  A JobTracker instance is a process-local map
\* loaded once from the ledger file; several instances (one per manager, one
\* per CLI process) may exist on the same file.  The clock is an input of
\* every call: a timestamp is the text datetime.now().isoformat() gave, and
\* which completions are older than keep_days is told to cleanup_completed.

\* the job ids the remote service hands out, in this order
JobIds == <<"j1", "j2">>
IdSet == { JobIds[k] : k \in 1..Len(JobIds) }
\* the backend a direct add_job call names
BackendArgs == {"ibm_torino"}
\* get_pending: status not in ("DONE", "CANCELLED", "ERROR")
Terminal == {"DONE", "CANCELLED", "ERROR"}

\* Optional[T]: None, or a value
Nothing == <<>>
Some(v) == <<v>>
\* a text the program puts together (a timestamp, a file path) is the tuple
\* of its parts; the empty text has none
EmptyText == <<>>
\* truth value of an Optional[str] (`if job.completed_at`, `if result_file`)
Truthy(o) == o # Nothing /\ o[1] # EmptyText

\* datetime.now(timezone.utc).isoformat()
Timestamp == <<"2026-01-01T00:00:00+00:00">>

\* the keyword defaults of add_job
AddJobDefaults ==
    [ circuit_name |-> "", num_qubits |-> 0, shots |-> 1024,
      experiment_type |-> "heartbeat", experiment_id |-> "" ]

\* JobRecord(...) as add_job builds it: status and the result fields default
JobRecord(job_id, backend_name, submitted_at, meta) ==
    [ job_id |-> job_id,
      backend_name |-> backend_name,
      submitted_at |-> submitted_at,
      status |-> "QUEUED",
      circuit_name |-> meta.circuit_name,
      num_qubits |-> meta.num_qubits,
      shots |-> meta.shots,
      experiment_type |-> meta.experiment_type,
      experiment_id |-> meta.experiment_id,
      completed_at |-> Nothing,
      execution_time |-> Nothing,
      result_file |-> Nothing ]

\* ---- dictionaries keyed by job id
EmptyJobs == [ k \in {} |-> Nothing ]
Put(m, k, v) == [ x \in DOMAIN m \cup {k} |-> IF x = k THEN v ELSE m[x] ]
Del(m, ks) == [ x \in DOMAIN m \ ks |-> m[x] ]

\* ---- JSON text, by value kind
JString(text) == [ t |-> "string", v |-> text ]
JNumber(n) == [ t |-> "number", v |-> n ]
JNull == [ t |-> "null" ]
DumpsOptional(o, kind) ==
    IF o = Nothing THEN JNull
    ELSE IF kind = "number" THEN JNumber(o[1]) ELSE JString(o[1])
\* a loader that reads JSON null back as the empty text (a mutant)
LoadsNullAsEmpty(j) == IF j.t = "null" THEN Some(EmptyText) ELSE Some(j.v)
LoadsOptional(j) == IF j.t = "null" THEN Nothing ELSE Some(j.v)

\* json.dumps(record.to_dict())
to_dict(r) ==
    [ job_id |-> JString(r.job_id),
      backend_name |-> JString(r.backend_name),
      submitted_at |-> JString(r.submitted_at),
      status |-> JString(r.status),
      circuit_name |-> JString(r.circuit_name),
      num_qubits |-> JNumber(r.num_qubits),
      shots |-> JNumber(r.shots),
      experiment_type |-> JString(r.experiment_type),
      experiment_id |-> JString(r.experiment_id),
      completed_at |-> DumpsOptional(r.completed_at, "string"),
      execution_time |-> DumpsOptional(r.execution_time, "number"),
      result_file |-> DumpsOptional(r.result_file, "string") ]

\* JobRecord.from_dict(json.loads(...))
from_dict(d) ==
    [ job_id |-> d.job_id.v,
      backend_name |-> d.backend_name.v,
      submitted_at |-> d.submitted_at.v,
      status |-> d.status.v,
      circuit_name |-> d.circuit_name.v,
      num_qubits |-> d.num_qubits.v,
      shots |-> d.shots.v,
      experiment_type |-> d.experiment_type.v,
      experiment_id |-> d.experiment_id.v,
      completed_at |-> LoadsOptional(d.completed_at),
      execution_time |-> LoadsOptional(d.execution_time),
      result_file |-> LoadsOptional(d.result_file) ]

\* ---- the ledger file: missing, a complete JSON document, or torn (empty or
\* cut short: what open(path, 'w') followed by an unfinished write leaves).
\* The "updated_at" entry of the document is never read and is left out.
MissingFile == [ state |-> "missing", jobs |-> EmptyJobs ]
TornFile == [ state |-> "torn", jobs |-> EmptyJobs ]
JsonFile(m) == [ state |-> "json", jobs |-> [ k \in DOMAIN m |-> to_dict(m[k]) ] ]

\* _load: a missing file keeps {}, a JSONDecodeError is logged and gives {}
Load(file) ==
    IF file.state = "json"
    THEN [ k \in DOMAIN file.jobs |-> from_dict(file.jobs[k]) ]
    ELSE EmptyJobs

\* how Path.write_text can end
WriteOutcomes == {"ok", "open_fails", "write_fails", "crash"}

\* a save that returns without touching the file (a mutant of _save)
SaveNothing(m, file, w) ==
    [ file |-> file, raised |-> w \in {"open_fails", "write_fails"},
      crashed |-> w = "crash" ]
\* _save: write_text opens with 'w' (the file is cut to nothing), writes the
\* whole document and closes; OSError leaves the method
_save(m, file, w) ==
    [ file |-> CASE w = "ok" -> JsonFile(m)
                 [] w = "open_fails" -> file
                 [] OTHER -> TornFile,
      raised |-> w \in {"open_fails", "write_fails"},
      crashed |-> w = "crash" ]

\* ---- the operations on self._jobs, before the save
add_job(m, job_id, backend_name, meta) ==
    Put(m, job_id, JobRecord(job_id, backend_name, Timestamp, meta))

update_status(m, job_id, status) ==
    IF job_id \in DOMAIN m
    THEN [ m EXCEPT ![job_id].status = status,
                    ![job_id].completed_at =
                        IF status = "DONE" THEN Some(Timestamp) ELSE @ ]
    ELSE m

mark_completed(m, job_id, execution_time, result_file) ==
    IF job_id \in DOMAIN m
    THEN [ m EXCEPT ![job_id].status = "DONE",
                    ![job_id].completed_at = Some(Timestamp),
                    ![job_id].execution_time = Some(execution_time),
                    ![job_id].result_file = Some(result_file) ]
    ELSE m

\* a selection that takes every record (a mutant of get_pending)
GetEveryRecord(m) == DOMAIN m
get_pending(m) == { k \in DOMAIN m : m[k].status \notin Terminal }
get_by_status(m, status) == { k \in DOMAIN m : m[k].status = status }

remove_job(m, job_id) == Del(m, {job_id})

\* old: the ids whose completed_at lies more than keep_days before the call
ToRemove(m, old) ==
    { k \in DOMAIN m :
        /\ m[k].status = "DONE"
        /\ Truthy(m[k].completed_at)
        /\ k \in old }
cleanup_completed(m, old) == Del(m, ToRemove(m, old))

\* no submit_parallel call under way or just returned, and no poll or collect
\* call that just returned
NoSubmit == [ pc |-> "idle", backends |-> <<>>, results |-> <<>>, created |-> <<>> ]
NoManagerCall ==
    [ op |-> "none", pending |-> {}, queried |-> {}, statuses |-> EmptyJobs,
      collected |-> <<>> ]

\* ---- calls on a tracker instance
StatusArgs == {"RUNNING", "DONE"}
ResultFileArg == <<"results/r.json">>

\* one call by instance i: m2 is self._jobs after the call's assignments,
\* saves tells whether the call reaches self._save(), w how the write ends.
\* A process that dies in the write is gone, and so is its memory.
TrackerCall(i, m2, saves, w) ==
    /\ i \in alive
    /\ w # "ok" => saves /\ faults < MaxFaults
    /\ faults' = IF w = "ok" THEN faults ELSE faults + 1
    /\ IF saves
       THEN LET s == _save(m2, ledger, w)
            IN  /\ ledger' = s.file
                /\ alive' = IF s.crashed THEN alive \ {i} ELSE alive
                /\ jobs' = [jobs EXCEPT ![i] = IF s.crashed THEN EmptyJobs ELSE m2]
       ELSE /\ jobs' = [jobs EXCEPT ![i] = m2]
            /\ UNCHANGED <<ledger, alive>>
    /\ UNCHANGED <<remote, sp, artifacts, returned, svars, rvars, bvars, qvars>>
    /\ mcall' = NoManagerCall

AddJobAs(i, job_id, backend_name, w) ==
    TrackerCall(i, add_job(jobs[i], job_id, backend_name, AddJobDefaults),
                TRUE, w)
UpdateStatusAs(i, job_id, status, w) ==
    TrackerCall(i, update_status(jobs[i], job_id, status),
                job_id \in DOMAIN jobs[i], w)
MarkCompletedAs(i, job_id, execution_time, result_file, w) ==
    TrackerCall(i, mark_completed(jobs[i], job_id, execution_time, result_file),
                job_id \in DOMAIN jobs[i], w)
RemoveJobAs(i, job_id, w) ==
    TrackerCall(i, remove_job(jobs[i], job_id), job_id \in DOMAIN jobs[i], w)
CleanupCompletedAs(i, old, w) ==
    TrackerCall(i, cleanup_completed(jobs[i], old), ToRemove(jobs[i], old) # {}, w)

AddJob ==
    \E i \in DOMAIN jobs, job_id \in IdSet, b \in BackendArgs, w \in WriteOutcomes :
        AddJobAs(i, job_id, b, w)
UpdateStatus ==
    \E i \in DOMAIN jobs, job_id \in IdSet, st \in StatusArgs, w \in WriteOutcomes :
        UpdateStatusAs(i, job_id, st, w)
MarkCompleted ==
    \E i \in DOMAIN jobs, job_id \in IdSet, w \in WriteOutcomes :
        MarkCompletedAs(i, job_id, 0, ResultFileArg, w)
RemoveJob ==
    \E i \in DOMAIN jobs, job_id \in IdSet, w \in WriteOutcomes :
        RemoveJobAs(i, job_id, w)
CleanupCompleted ==
    \E i \in DOMAIN jobs, old \in SUBSET IdSet, w \in WriteOutcomes :
        CleanupCompletedAs(i, old, w)

\* JobTracker(tracker_file) in a new process (the one before it, if any, ended)
NewTrackerAs(i) ==
    /\ jobs' = [jobs EXCEPT ![i] = Load(ledger)]
    /\ alive' = alive \cup {i}
    /\ UNCHANGED <<faults, ledger, remote, sp, artifacts, mcall, returned,
                   svars, rvars, bvars, qvars>>
NewTracker == \E i \in DOMAIN jobs : NewTrackerAs(i)

\* =========================================================================
\*                              JOB MANAGER
\* =========================================================================
\* quantum_jobs/manager.py.  One QuantumJobManager, its tracker is instance 1.

FAST_BACKENDS == <<"ibm_torino", "ibm_fez">>

\* the backends argument of submit_parallel: None, or a list
SubmitArgs ==
    { [ given |-> FALSE, list |-> <<>> ],
      [ given |-> TRUE, list |-> <<"ibm_fez">> ] }
BackendsOrDefault(arg) == IF arg.given THEN arg.list ELSE FAST_BACKENDS

\* what submit_parallel hands to add_job through submit_single
ManagerMeta ==
    [ circuit_name |-> "circuit", num_qubits |-> 5, shots |-> 1024,
      experiment_type |-> "parallel", experiment_id |-> "parallel_20260101_000000" ]

SubmissionResult(job_id, backend_name, status, submitted, error) ==
    [ job_id |-> job_id, backend_name |-> backend_name, status |-> status,
      submitted |-> submitted, error |-> error ]

\* the remote service numbers its jobs; the model has Len(JobIds) of them
IdsLeft(r) == Cardinality(DOMAIN r) < Len(JobIds)
NextJobId(r) == JobIds[Cardinality(DOMAIN r) + 1]

\* how one submit_single can go: the remote calls raise (service.backend,
\* transpile, sampler.run), or the job is created and add_job's write ends
\* in one of three ways
SubmitOutcomes == {"submit_fails", "ok", "open_fails", "write_fails"}

\* a submit_single that reports the job but never registers it (a mutant)
SubmitSingleUntracked(m, file, r, backend_name, o) ==
    IF o = "submit_fails"
    THEN [ result |-> SubmissionResult("", backend_name, "FAILED", FALSE, Some("submit")),
           m |-> m, file |-> file, remote |-> r, created |-> "" ]
    ELSE [ result |-> SubmissionResult(NextJobId(r), backend_name, "QUEUED", TRUE, Nothing),
           m |-> m, file |-> file,
           remote |-> Put(r, NextJobId(r), "QUEUED"), created |-> NextJobId(r) ]

\* submit_single: everything is inside try / except Exception
submit_single(m, file, r, backend_name, o) ==
    IF o = "submit_fails"
    THEN [ result |-> SubmissionResult("", backend_name, "FAILED", FALSE, Some("submit")),
           m |-> m, file |-> file, remote |-> r, created |-> "" ]
    ELSE LET job_id == NextJobId(r)
             m2 == add_job(m, job_id, backend_name, ManagerMeta)
             s == _save(m2, file, o)
         IN  [ result |-> IF s.raised
                          THEN SubmissionResult("", backend_name, "FAILED", FALSE,
                                                Some("OSError"))
                          ELSE SubmissionResult(job_id, backend_name, "QUEUED", TRUE,
                                                Nothing),
               m |-> m2, file |-> s.file,
               remote |-> Put(r, job_id, "QUEUED"), created |-> job_id ]

ManagerIdle == 1 \in alive /\ sp.pc \in {"idle", "returned"}

\* submit_parallel(circuit, backends): up to the loop
SubmitParallel ==
    /\ ManagerIdle
    /\ \E arg \in SubmitArgs :
         sp' = [ pc |-> IF BackendsOrDefault(arg) = <<>> THEN "returned" ELSE "loop",
                 backends |-> BackendsOrDefault(arg),
                 results |-> <<>>, created |-> <<>> ]
    /\ mcall' = NoManagerCall
    /\ UNCHANGED <<faults, ledger, jobs, alive, remote, artifacts, returned,
                   svars, rvars, bvars, qvars>>

\* for backend_name in backends: submit_single is entered and its remote
\* calls are under way; nothing bounds how long they take
SubmitSingleCall ==
    /\ 1 \in alive
    /\ sp.pc = "loop"
    /\ sp' = [sp EXCEPT !.pc = "calling"]
    /\ UNCHANGED <<faults, ledger, jobs, alive, remote, artifacts, mcall,
                   returned, svars, rvars, bvars, qvars>>

\* submit_single returns and results.append(result); after the last backend
\* submit_parallel returns
SubmitSingleReturn ==
    /\ 1 \in alive
    /\ sp.pc = "calling"
    /\ \E o \in SubmitOutcomes :
         /\ o # "submit_fails" => IdsLeft(remote)
         /\ o \in {"open_fails", "write_fails"} => faults < MaxFaults
         /\ LET backend_name == sp.backends[Len(sp.results) + 1]
                r == submit_single(jobs[1], ledger, remote, backend_name, o)
            IN  /\ jobs' = [jobs EXCEPT ![1] = r.m]
                /\ ledger' = r.file
                /\ remote' = r.remote
                /\ faults' = IF o \in {"open_fails", "write_fails"}
                             THEN faults + 1 ELSE faults
                /\ sp' = [sp EXCEPT !.results = Append(@, r.result),
                                    !.created = Append(@, r.created),
                                    !.pc = IF Len(sp.results) + 1 = Len(sp.backends)
                                           THEN "returned" ELSE "loop"]
    /\ UNCHANGED <<alive, artifacts, mcall, returned, svars, rvars, bvars, qvars>>

\* the remote service works on its jobs
NextStatus(status) ==
    CASE status = "QUEUED" -> {"RUNNING"}
      [] status = "RUNNING" -> {"DONE", "ERROR"}
      [] OTHER -> {}
RemoteAdvance ==
    /\ \E job_id \in DOMAIN remote :
         \E st \in NextStatus(remote[job_id]) :
             remote' = [remote EXCEPT ![job_id] = st]
    /\ mcall' = NoManagerCall
    /\ UNCHANGED <<faults, ledger, jobs, alive, sp, artifacts, returned,
                   svars, rvars, bvars, qvars>>

\* ---- poll_pending
\* per pending job: the status query raises, or it answers and
\* update_status's write ends in one of three ways
PollOutcomes == {"query_fails", "ok", "open_fails", "write_fails"}
Faulty(o) == { k \in DOMAIN o : o[k] \in {"open_fails", "write_fails"} }

\* st: [m, file, statuses, queried]; the loop body for job ids[k] onwards
RECURSIVE PollFrom(_, _, _, _, _)
PollFrom(ids, k, st, r, o) ==
    IF k > Len(ids) THEN st
    ELSE IF ids[k] \notin DOMAIN o THEN PollFrom(ids, k + 1, st, r, o)
    ELSE LET job_id == ids[k]
             m2 == update_status(st.m, job_id, r[job_id])
             s == _save(m2, st.file, o[job_id])
             after ==
                 IF o[job_id] = "query_fails"
                 THEN [ st EXCEPT !.statuses = Put(@, job_id, "ERROR: query"),
                                  !.queried = @ \cup {job_id} ]
                 ELSE [ m |-> m2, file |-> s.file,
                        statuses |-> Put(st.statuses, job_id,
                                         IF s.raised THEN "ERROR: OSError"
                                         ELSE r[job_id]),
                        queried |-> st.queried \cup {job_id} ]
         IN  PollFrom(ids, k + 1, after, r, o)

poll_pending(m, file, r, o) ==
    PollFrom(JobIds, 1,
             [ m |-> m, file |-> file, statuses |-> EmptyJobs, queried |-> {} ],
             r, o)

PollPending ==
    /\ ManagerIdle
    /\ \E o \in [get_pending(jobs[1]) -> PollOutcomes] :
         /\ faults + Cardinality(Faulty(o)) <= MaxFaults
         /\ \A k \in DOMAIN o : k \notin DOMAIN remote => o[k] = "query_fails"
         /\ LET p == poll_pending(jobs[1], ledger, remote, o)
            IN  /\ jobs' = [jobs EXCEPT ![1] = p.m]
                /\ ledger' = p.file
                /\ faults' = faults + Cardinality(Faulty(o))
                /\ mcall' = [ op |-> "poll", pending |-> get_pending(jobs[1]),
                              queried |-> p.queried, statuses |-> p.statuses,
                              collected |-> <<>> ]
    /\ sp' = NoSubmit
    /\ UNCHANGED <<alive, remote, artifacts, returned, svars, rvars, bvars, qvars>>

\* ---- collect_completed
\* per job to collect: fetching the result raises, writing the artifact
\* raises, or the artifact is written and mark_completed's write ends in one
\* of three ways
CollectOutcomes == {"result_fails", "artifact_fails", "ok", "open_fails", "write_fails"}

\* _save_result: the path of the artifact
ResultPath(backend_name, job_id) ==
    <<"results/", backend_name, "_", Timestamp[1], "_", job_id, ".json">>

\* a selection that takes every DONE record (a mutant of ToCollect)
CollectEveryDone(m) == get_by_status(m, "DONE")
\* the records collect_completed does not skip
ToCollect(m) == { k \in get_by_status(m, "DONE") : ~Truthy(m[k].result_file) }

\* st: [m, file, artifacts, collected]; the loop body for job ids[k] onwards
RECURSIVE CollectFrom(_, _, _, _)
CollectFrom(ids, k, st, o) ==
    IF k > Len(ids) THEN st
    ELSE IF ids[k] \notin DOMAIN o THEN CollectFrom(ids, k + 1, st, o)
    ELSE LET job_id == ids[k]
             path == ResultPath(st.m[job_id].backend_name, job_id)
             m2 == mark_completed(st.m, job_id, 0, path)
             s == _save(m2, st.file, o[job_id])
             after ==
                 IF o[job_id] \in {"result_fails", "artifact_fails"} THEN st
                 ELSE [ m |-> m2, file |-> s.file,
                        artifacts |-> [st.artifacts EXCEPT ![job_id] = @ + 1],
                        collected |-> IF s.raised THEN st.collected
                                      ELSE Append(st.collected, job_id) ]
         IN  CollectFrom(ids, k + 1, after, o)

collect_completed(m, file, a, o) ==
    CollectFrom(JobIds, 1,
                [ m |-> m, file |-> file, artifacts |-> a, collected |-> <<>> ], o)

CollectCompleted ==
    /\ ManagerIdle
    /\ \E o \in [ToCollect(jobs[1]) -> CollectOutcomes] :
         /\ faults + Cardinality(Faulty(o)) <= MaxFaults
         /\ LET c == collect_completed(jobs[1], ledger, artifacts, o)
            IN  /\ jobs' = [jobs EXCEPT ![1] = c.m]
                /\ ledger' = c.file
                /\ artifacts' = c.artifacts
                /\ faults' = faults + Cardinality(Faulty(o))
                /\ returned' = [ k \in IdSet |->
                                   returned[k] +
                                   Cardinality({ j \in 1..Len(c.collected) :
                                                   c.collected[j] = k }) ]
                /\ mcall' = [ op |-> "collect", pending |-> {}, queried |-> DOMAIN o,
                              statuses |-> EmptyJobs, collected |-> c.collected ]
    /\ sp' = NoSubmit
    /\ UNCHANGED <<alive, remote, svars, rvars, bvars, qvars>>

\* tracker.mark_completed called on the manager's tracker
ManagerMarkCompleted ==
    /\ ManagerIdle
    /\ \E job_id \in DOMAIN jobs[1] :
         MarkCompletedAs(1, job_id, 0, ResultFileArg, "ok")

\* =========================================================================
\*                    HeartbeatConfig.beats_remaining
\* =========================================================================

\* int(x) of Python for the quotient n / d of two integers, d > 0: the
\* fraction is cut off, towards zero
IntOf(n, d) == IF n >= 0 THEN n \div d ELSE -((-n) \div d)

\* beats_remaining: (max_monthly_seconds - used_seconds) divided by the
\* estimate num/den is (max_monthly_seconds - used_seconds) * den / num
beats_remaining(cfg, used) ==
    LET remaining == cfg.max_monthly_seconds - used
        e == cfg.estimated_seconds_per_beat
    IN  IntOf(remaining * e.den, e.num)

\* the ceilings and estimates the calls are made with: the defaults (600 s,
\* 0.8 s), the ceiling of the scheduler model, and estimates of 0.5, 1 and 1.5 s
CeilingArgs == {MaxMonthlySeconds, 600}
EstimateArgs == { Decimal(8, 10), Decimal(5, 10), Decimal(10, 10), Decimal(15, 10) }

BudgetConfigs ==
    { [ Config(TRUE, FALSE, <<>>) EXCEPT !.max_monthly_seconds = m,
                                         !.estimated_seconds_per_beat = e ] :
        m \in CeilingArgs, e \in EstimateArgs }

\* used_seconds of a call: nothing used up to MaxExecTime seconds over the ceiling
UsedArgs(cfg) == 0..(cfg.max_monthly_seconds + MaxExecTime)

\* config.beats_remaining(used)
BeatsRemaining ==
    /\ \E used \in UsedArgs(config) :
         /\ used_seconds' = used
         /\ beats_left' = beats_remaining(config, used)
    /\ UNCHANGED <<svars, rvars, jvars, qvars>>

\* no call of beats_remaining is looked at
InitBudgetIdle ==
    /\ used_seconds = 0
    /\ beats_left = 0

\* =========================================================================
\*                              TASK QUEUE
\* =========================================================================

\* members of the enums TaskStatus and TaskPriority, and their .value
TaskStatus(value) == <<"TaskStatus", value>>
TaskPriority(value) == <<"TaskPriority", value>>
ValueOf(member) == member[2]

\* priorities the tasks are created with: HIGH and NORMAL
TaskPriorityArgs == {1, 2}

AgentArgs == {"bkg"}

\* the id of the k-th task created (uuid4: no two tasks share one)
TaskId(k) == <<"task", k>>

\* QuantumTask(priority=...), the fields the queue reads or writes
QuantumTask(id, p) ==
    [ id |-> id, status |-> TaskStatus("pending"), priority |-> TaskPriority(p),
      assigned_agent |-> None, error_message |-> None ]

\* QuantumTask.to_dict / from_dict: the enums are stored by value
task_to_dict(task) ==
    [ task EXCEPT !.status = ValueOf(task.status),
                  !.priority = ValueOf(task.priority) ]

task_from_dict(data) ==
    [ data EXCEPT !.status = TaskStatus(data.status),
                  !.priority = TaskPriority(data.priority) ]

\* QuantumTask.assign, complete, fail
assign(task, agent) ==
    [ task EXCEPT !.assigned_agent = agent, !.status = TaskStatus("assigned") ]

complete(task) == [ task EXCEPT !.status = TaskStatus("completed") ]

fail(task, error) ==
    [ task EXCEPT !.status = TaskStatus("failed"), !.error_message = error ]

\* list.sort(key=priority): stable, the smallest priority value first
SortByPriority(list) ==
    LET Of(p) == LET Has(t) == t.priority = p IN SelectSeq(list, Has)
    IN  Of(0) \o Of(1) \o Of(2) \o Of(3) \o Of(4)

\* the completed directory: no file, and writing completed/<id>.json
EmptyDir == [ k \in {} |-> <<>> ]
WriteArchive(dir, task) == Put(dir, task.id, task_to_dict(task))

\* the files of the queue directory, as a record
QueueFiles ==
    [ pending |-> pending_json, active |-> active_json, completed |-> completed_dir ]

\* add_task: the files after the call and the returned id
add_task(q, task) ==
    [ q |-> [q EXCEPT !.pending = Append(q.pending, task_to_dict(task))],
      returned |-> Some(task.id) ]

\* claim_next_task: the files after the call and the id of the returned task
\* (Nothing for None)
claim_next_task(q, agent) ==
    IF q.pending = <<>>
    THEN [q |-> q, returned |-> Nothing]
    ELSE LET sorted == SortByPriority(q.pending)
             task == assign(task_from_dict(Head(sorted)), agent)
         IN  [ q |-> [q EXCEPT !.pending = Tail(sorted),
                               !.active = <<task_to_dict(task)>>],
               returned |-> Some(task.id) ]

\* complete_active_task
complete_active_task(q) ==
    IF q.active = <<>>
    THEN q
    ELSE LET task == complete(task_from_dict(q.active[1]))
         IN  [q EXCEPT !.completed = WriteArchive(q.completed, task),
                       !.active = <<>>]

\* fail_active_task
fail_active_task(q, error) ==
    IF q.active = <<>>
    THEN q
    ELSE LET task == fail(task_from_dict(q.active[1]), error)
         IN  [q EXCEPT !.completed = WriteArchive(q.completed, task),
                       !.active = <<>>]

QueueCall(op, q, ret) ==
    /\ pending_json' = q.pending
    /\ active_json' = q.active
    /\ completed_dir' = q.completed
    /\ qcall' = [op |-> op, returned |-> ret]

NoQueueCall == [op |-> "none", returned |-> Nothing]

AddTask ==
    /\ Cardinality(added) < MaxTasks
    /\ \E p \in TaskPriorityArgs :
         LET task == QuantumTask(TaskId(Cardinality(added) + 1), p)
             r == add_task(QueueFiles, task)
         IN  /\ QueueCall("add_task", r.q, r.returned)
             /\ added' = added \cup {task.id}
    /\ UNCHANGED <<svars, rvars, jvars, bvars>>

ClaimNextTask ==
    /\ \E agent \in AgentArgs :
         LET r == claim_next_task(QueueFiles, agent)
         IN  QueueCall("claim_next_task", r.q, r.returned)
    /\ UNCHANGED <<added, svars, rvars, jvars, bvars>>

CompleteActiveTask ==
    /\ QueueCall("complete_active_task", complete_active_task(QueueFiles), Nothing)
    /\ UNCHANGED <<added, svars, rvars, jvars, bvars>>

FailActiveTask ==
    /\ QueueCall("fail_active_task", fail_active_task(QueueFiles, "error"), Nothing)
    /\ UNCHANGED <<added, svars, rvars, jvars, bvars>>

\* no TaskQueue is looked at
InitQueueIdle ==
    /\ pending_json = <<>>
    /\ active_json = <<>>
    /\ completed_dir = EmptyDir
    /\ added = {}
    /\ qcall = NoQueueCall

\* the scheduler does not use the registry
InitRegistryIdle ==
    /\ priority = DefaultPriority
    /\ usable = {}
    /\ cached = {}
    /\ call = NoCall

\* the scheduler and the registry do not use the tracker or the manager
InitJobsIdle ==
    /\ faults = 0
    /\ ledger = MissingFile
    /\ jobs = [ i \in {1} |-> EmptyJobs ]
    /\ alive = {}
    /\ remote = EmptyJobs
    /\ sp = NoSubmit
    /\ artifacts = [ k \in IdSet |-> 0 ]
    /\ mcall = NoManagerCall
    /\ returned = [ k \in IdSet |-> 0 ]

Init ==
    /\ InitJobsIdle
    /\ InitBudgetIdle
    /\ InitQueueIdle
    /\ config \in Configs
    /\ beat_count = 0
    /\ budget_used = 0
    /\ results = <<>>
    /\ running = FALSE
    /\ runtime = None
    /\ backend = None
    /\ rotation_file = <<>>
    /\ rotation_index = LoadRotationIndex(rotation_file)
    /\ pc = "idle"
    /\ max_beats = 0
    /\ restarts = 0
    /\ month_used = 0
    /\ last = NoTick
    /\ InitRegistryIdle

Next ==
    \/ SingleBeat
    \/ Start
    \/ LoopBeat
    \/ LoopExit
    \/ LoopCheck
    \/ Sleep
    \/ Interrupt
    \/ Stop
    \/ Restart

Spec == Init /\ [][Next]_vars

InitRegistry ==
    /\ InitJobsIdle
    /\ InitBudgetIdle
    /\ InitQueueIdle
    /\ config = Config(TRUE, FALSE, <<>>)
    /\ beat_count = 0
    /\ budget_used = 0
    /\ results = <<>>
    /\ running = FALSE
    /\ runtime = None
    /\ backend = None
    /\ rotation_file = <<>>
    /\ rotation_index = 0
    /\ pc = "idle"
    /\ max_beats = 0
    /\ restarts = 0
    /\ month_used = 0
    /\ last = NoTick
    /\ \E arg \in PriorityArgs : priority = RegistryPriority(arg)
    /\ usable \in SUBSET RealProviders
    /\ cached = {}
    /\ call = NoCall

NextRegistry ==
    \/ SelectProvider
    \/ RunHeartbeatCircuit
    \/ EnvChange

SpecRegistry == InitRegistry /\ [][NextRegistry]_vars

\* ---- the tracker alone: one instance, and two instances on one file
InitBrokerIdle ==
    /\ InitBudgetIdle
    /\ InitQueueIdle
    /\ config = Config(TRUE, FALSE, <<>>)
    /\ beat_count = 0
    /\ budget_used = 0
    /\ results = <<>>
    /\ running = FALSE
    /\ runtime = None
    /\ backend = None
    /\ rotation_file = <<>>
    /\ rotation_index = 0
    /\ pc = "idle"
    /\ max_beats = 0
    /\ restarts = 0
    /\ month_used = 0
    /\ last = NoTick
    /\ InitRegistryIdle

InitTracker ==
    /\ InitBrokerIdle
    /\ faults = 0
    /\ ledger = MissingFile
    /\ jobs = [ i \in {1} |-> Load(ledger) ]
    /\ alive = {1}
    /\ remote = EmptyJobs
    /\ sp = NoSubmit
    /\ artifacts = [ k \in IdSet |-> 0 ]
    /\ mcall = NoManagerCall
    /\ returned = [ k \in IdSet |-> 0 ]

NextTracker ==
    \/ AddJob
    \/ UpdateStatus
    \/ MarkCompleted
    \/ RemoveJob
    \/ CleanupCompleted
    \/ NewTracker

SpecTracker == InitTracker /\ [][NextTracker]_vars

\* two processes that constructed their tracker on the same, still missing,
\* file; every write to the file goes through
InitWriters ==
    /\ InitBrokerIdle
    /\ faults = MaxFaults
    /\ ledger = MissingFile
    /\ jobs = [ i \in {1, 2} |-> Load(ledger) ]
    /\ alive = {1, 2}
    /\ remote = EmptyJobs
    /\ sp = NoSubmit
    /\ artifacts = [ k \in IdSet |-> 0 ]
    /\ mcall = NoManagerCall
    /\ returned = [ k \in IdSet |-> 0 ]

SpecWriters == InitWriters /\ [][NextTracker]_vars

\* ---- one job manager and the remote service
InitManager == InitTracker

NextManager ==
    \/ SubmitParallel
    \/ SubmitSingleCall
    \/ SubmitSingleReturn
    \/ RemoteAdvance
    \/ PollPending
    \/ CollectCompleted
    \/ ManagerMarkCompleted

SpecManager == InitManager /\ [][NextManager]_vars

\* ---- calls of beats_remaining on one configuration
InitBudget ==
    /\ InitJobsIdle
    /\ InitQueueIdle
    /\ InitRegistryIdle
    /\ config \in BudgetConfigs
    /\ beat_count = 0
    /\ budget_used = 0
    /\ results = <<>>
    /\ running = FALSE
    /\ runtime = None
    /\ backend = None
    /\ rotation_file = <<>>
    /\ rotation_index = 0
    /\ pc = "idle"
    /\ max_beats = 0
    /\ restarts = 0
    /\ month_used = 0
    /\ last = NoTick
    /\ used_seconds \in UsedArgs(config)
    /\ beats_left = beats_remaining(config, used_seconds)

NextBudget == BeatsRemaining

SpecBudget == InitBudget /\ [][NextBudget]_vars

\* ---- one TaskQueue directory, empty at first
InitQueue ==
    /\ InitBrokerIdle
    /\ InitJobsIdle

NextQueue ==
    \/ AddTask
    \/ ClaimNextTask
    \/ CompleteActiveTask
    \/ FailActiveTask

SpecQueue == InitQueue /\ [][NextQueue]_vars

\* =========================================================================
\*                       PROPERTIES OF THE SCHEDULER
\* =========================================================================

\* A step that is one call of single_beat: LoopBeat leaves "loop", and of the
\* steps that start at "idle" only SingleBeat leaves a tick behind.
BeatStep ==
    \/ pc = "loop" /\ pc' \in {"check", "crashed"}
    \/ pc = "idle" /\ pc' \in {"idle", "crashed"} /\ last' # NoTick

Ceiling == config.max_monthly_seconds

FailedOutcomes == {"connect", "backend", "build", "execute", "persist"}

\* every recorded beat took exactly 1 s and no failed tick consumed budget
EveryExecutionOneSecond ==
    /\ \A i \in 1..Len(results) : results[i].execution_time_seconds = 1
    /\ budget_used = Len(results)

\* C1: a tick is admitted iff budget_used < max_monthly_seconds when it starts;
\* a refused tick goes through no step (no backend resolved, no circuit built,
\* no provider contacted) and leaves beat_count, budget_used, results, the
\* runtime, the backend and the rotation index unchanged; and when every
\* execution took exactly 1 s, a tick is refused only after exactly
\* max_monthly_seconds beats have succeeded.
C1_AdmissionGate ==
    /\ [][ BeatStep =>
             /\ (last'.outcome # "refused") <=> (budget_used < Ceiling)
             /\ last'.outcome = "refused" =>
                   /\ last'.steps = {}
                   /\ UNCHANGED <<beat_count, budget_used, results, runtime,
                                  backend, rotation_index, rotation_file>> ]_vars
    /\ [] ( (last.outcome = "refused" /\ EveryExecutionOneSecond)
              => (beat_count = Ceiling /\ Len(results) = Ceiling) )

C1_Witness ==
    /\ last.outcome = "refused"
    /\ EveryExecutionOneSecond
    /\ beat_count = MaxMonthlySeconds

\* C2 (as claimed): a beat executed on the local simulator leaves budget_used
\* unchanged.
C2_SimulatorBeatFree ==
    [][ (BeatStep /\ config.use_simulator) => budget_used' = budget_used ]_vars

\* C3: a successful beat adds exactly its measured execution time to
\* budget_used; a tick that is refused, a dry run, or fails before the circuit
\* is executed adds nothing; on one scheduler budget_used never decreases.
C3_BudgetAccounting ==
    [][ restarts' = restarts =>
          /\ budget_used' >= budget_used
          /\ Len(results') = Len(results) + 1 =>
                budget_used' = budget_used
                               + results'[Len(results')].execution_time_seconds
          /\ (BeatStep /\ last'.outcome \in
                            {"refused", "dry_run", "connect", "backend", "build"})
                => budget_used' = budget_used ]_vars

C3_Witness ==
    /\ last.outcome = "ok"
    /\ Len(results) = 2
    /\ budget_used = results[1].execution_time_seconds
                     + results[2].execution_time_seconds

\* C4 (as claimed): a tick is admitted only while the seconds consumed this
\* month by all scheduler instances are below the ceiling.
C4_MonthlyCeiling ==
    [][ (BeatStep /\ last'.outcome # "refused") => month_used < Ceiling ]_vars

\* C9 (as claimed): an admitted tick whose primary provider cannot be reached,
\* cannot give a backend or fails to run the circuit still produces a result
\* (the local simulator needs nothing the failed provider has).
C9_TickFailsOver ==
    [][ (BeatStep /\ ~config.use_simulator
           /\ last'.outcome \in {"connect", "backend", "execute"})
          => Len(results') = Len(results) + 1 ]_vars

\* C10: an exception raised while resolving the backend, building, executing
\* or persisting a beat never leaves single_beat: the call returns None (no
\* result is appended, beat_count stays), start() is not crashed, and unless a
\* stopping condition of start() holds the loop goes to its sleep and from
\* there to the next tick.
LoopStops ==
    \/ max_beats # 0 /\ beat_count >= max_beats
    \/ budget_used >= Ceiling

C10_BadTickSurvived ==
    /\ [][ (BeatStep /\ last'.outcome \in FailedOutcomes) =>
             /\ pc' # "crashed"
             /\ pc = "loop" => pc' = "check"
             /\ results' = results
             /\ beat_count' = beat_count ]_vars
    /\ [] (pc # "crashed")
    /\ [] ( (pc = "check" /\ last.outcome \in FailedOutcomes /\ ~LoopStops)
              => ENABLED (LoopCheck /\ pc' = "sleep") )
    /\ [] ( pc = "sleep" => ENABLED (Sleep /\ pc' = "loop") )
    /\ [] ( (pc = "loop" /\ running) => ENABLED LoopBeat )

C10_Witness ==
    /\ pc = "check"
    /\ last.outcome = "persist"
    /\ ~LoopStops

\* =========================================================================
\*                       PROPERTIES OF THE REGISTRY
\* =========================================================================

\* the first place of the priority list whose provider is in A, 0 when none is
FirstIn(prio, A) ==
    IF \E i \in 1..Len(prio) : prio[i] \in A
    THEN CHOOSE i \in 1..Len(prio) :
             prio[i] \in A /\ \A j \in 1..(i - 1) : prio[j] \notin A
    ELSE 0

Attempted == { call.attempts[j][1] : j \in 1..Len(call.attempts) }

\* C5: select_provider(preferred) returns the preferred provider when it is
\* registered and reports available; otherwise (or with no preference) the
\* first provider of the priority list that reports available; it always
\* returns an adapter, the local simulator when nothing of the list is
\* available.
C5_SelectProvider ==
    call.op = "select" =>
        LET A == call.avail
            first == FirstIn(priority, A)
        IN  /\ call.selected.name \in A
            /\ call.preferred \in A => call.selected = Provider(call.preferred)
            /\ (call.preferred \notin A /\ first # 0)
                  => call.selected = Provider(priority[first])
            /\ (call.preferred \notin A /\ first = 0)
                  => call.selected.name = "simulator"

C5_Witness ==
    /\ call.op = "select"
    /\ call.preferred = "braket"
    /\ "braket" \notin call.avail
    /\ Len(priority) >= 2
    /\ priority[1] \notin call.avail
    /\ call.selected = Provider(priority[2])
    /\ call.selected.name # "simulator"

\* C6: run_heartbeat_circuit asks the providers of the attempt order in turn,
\* returns the result of the first whose run_circuit succeeds, asks none after
\* it, and has recorded one (provider, error) entry for each attempt before it;
\* over [Fails, Fails, Succeeds] it returns the third provider's result with
\* exactly two failed attempts recorded.
C6_FirstSuccessWins ==
    call.op = "run" =>
        LET order == call.attempt_order
            att == call.attempts
            n == Len(att)
        IN  /\ n >= 1 /\ n <= Len(order)
            /\ \A j \in 1..n : att[j][1] = order[j].name
            /\ \A j \in 1..(n - 1) : att[j][2] = FALSE
            /\ Len(call.tried) = Cardinality({ j \in 1..n : att[j][2] = FALSE })
            /\ \A j \in 1..Len(call.tried) : call.tried[j][1] = att[j][1]
            /\ att[n][2] = TRUE =>
                  /\ call.result = order[n].name
                  /\ Len(call.tried) = n - 1
            /\ att[n][2] = FALSE =>
                  /\ call.result = "RuntimeError"
                  /\ n = Len(order)

C6_Witness ==
    /\ call.op = "run"
    /\ Len(call.attempts) = 3
    /\ call.attempts[1][2] = FALSE
    /\ call.attempts[2][2] = FALSE
    /\ call.attempts[3][2] = TRUE
    /\ call.result = call.attempt_order[3].name
    /\ Len(call.tried) = 2

\* C7 (as claimed): run_heartbeat_circuit raises only when the whole chain,
\* the local simulator included, has been attempted and has failed.
C7_RaisesOnlyAfterFallback ==
    (call.op = "run" /\ call.result = "RuntimeError") =>
        /\ "simulator" \in Attempted
        /\ \A j \in 1..Len(priority) :
              priority[j] \in call.avail => priority[j] \in Attempted

\* C8 (as claimed): the attempt order is the selected provider followed by the
\* remaining available providers in priority order; no provider is attempted
\* twice; no provider that reported unavailable is asked to run; and with no
\* preference, the first provider unavailable and the second available, the
\* first attempt goes to the second provider.
C8_AttemptOrder ==
    call.op = "run" =>
        LET att == call.attempts
            Remains(n) == n \in call.avail /\ n # call.selected.name
        IN  /\ Names(call.attempt_order)
                  = <<call.selected.name>> \o SelectSeq(priority, Remains)
            /\ att[1][1] = call.selected.name
            /\ \A i, j \in 1..Len(att) : att[i][1] = att[j][1] => i = j
            /\ \A j \in 1..Len(att) : att[j][1] \in call.avail
            /\ (/\ call.preferred = ""
                /\ Len(priority) >= 2
                /\ priority[1] \notin call.avail
                /\ priority[2] \in call.avail)
                  => att[1][1] = priority[2]

\* =========================================================================
\*                     PROPERTIES OF THE JOB TRACKER
\* =========================================================================

\* a step in which instance i returned normally from a call that wrote job_id
WroteRecord(i, job_id) ==
    /\ job_id \in DOMAIN jobs'[i]
    /\ \/ \E b \in BackendArgs : AddJobAs(i, job_id, b, "ok")
       \/ \E st \in StatusArgs : UpdateStatusAs(i, job_id, st, "ok")
       \/ MarkCompletedAs(i, job_id, 0, ResultFileArg, "ok")

\* a step in which instance i returned normally from any of the five calls
CompletedCall(i) ==
    \/ \E job_id \in IdSet : WroteRecord(i, job_id)
    \/ \E job_id \in IdSet : RemoveJobAs(i, job_id, "ok")
    \/ \E old \in SUBSET IdSet : CleanupCompletedAs(i, old, "ok")

\* a step in which the ledger write of a call by instance i raised OSError
FailedCall(i) ==
    \E w \in {"open_fails", "write_fails"}, job_id \in IdSet :
        \/ \E b \in BackendArgs : AddJobAs(i, job_id, b, w)
        \/ \E st \in StatusArgs : UpdateStatusAs(i, job_id, st, w)
        \/ MarkCompletedAs(i, job_id, 0, ResultFileArg, w)
        \/ RemoveJobAs(i, job_id, w)

\* C11: once add_job, update_status or mark_completed has returned for a job
\* id, a new JobTracker on the same ledger file holds a record for that id
\* whose every field equals the one in memory.
C11_RoundTrip ==
    [][ \A i \in DOMAIN jobs, job_id \in IdSet :
          WroteRecord(i, job_id) =>
              /\ job_id \in DOMAIN Load(ledger')
              /\ Load(ledger')[job_id] = jobs'[i][job_id] ]_vars

\* a completed record was written and a reload gives back the whole map
C11_Witness ==
    /\ 1 \in alive
    /\ ledger.state = "json"
    /\ \E job_id \in DOMAIN jobs[1] :
          /\ jobs[1][job_id].result_file = Some(ResultFileArg)
          /\ jobs[1][job_id].execution_time = Some(0)
    /\ \E job_id \in DOMAIN jobs[1] : jobs[1][job_id].completed_at = Nothing
    /\ Load(ledger) = jobs[1]

\* C12: every completed add_job, update_status, mark_completed, remove_job
\* and cleanup_completed that changed anything leaves the job map in the
\* ledger file equal to the instance's job map in memory.
C12_PersistedAfterMutation ==
    [][ \A i \in DOMAIN jobs :
          CompletedCall(i) =>
              /\ ledger'.state = "json"
              /\ Load(ledger') = jobs'[i] ]_vars

\* the last record was removed and the file holds the empty map
C12_Witness ==
    /\ 1 \in alive
    /\ faults = 0
    /\ ledger = JsonFile(EmptyJobs)
    /\ jobs[1] = EmptyJobs

\* C13: the ledger file always holds a complete snapshot, never a torn or
\* empty one, also after a write that failed or was cut short by a crash.
C13_AtomicLedger == ledger.state # "torn"

\* C14: a completed add_job, update_status or mark_completed by one instance
\* keeps every other record of the durable ledger as it was, whichever
\* instance wrote it.
C14_NoLostUpdate ==
    [][ \A i \in DOMAIN jobs, job_id \in IdSet :
          WroteRecord(i, job_id) =>
              \A k \in DOMAIN Load(ledger) \ {job_id} :
                  /\ k \in DOMAIN Load(ledger')
                  /\ Load(ledger')[k] = Load(ledger)[k] ]_vars

\* C15: when the ledger write of add_job, update_status, mark_completed or
\* remove_job fails, the job map in memory is the one before the call.
C15_FailedWriteRollsBack ==
    [][ \A i \in DOMAIN jobs : FailedCall(i) => jobs'[i] = jobs[i] ]_vars

\* the stage of the lifecycle a status stands for
Stage(status) ==
    CASE status = "QUEUED" -> 1
      [] status = "RUNNING" -> 2
      [] OTHER -> 3

\* C17: a record with a terminal status keeps it, and no record moves to an
\* earlier stage of the lifecycle.
C17_StatusForwardOnly ==
    [][ \A i \in DOMAIN jobs :
          \A k \in DOMAIN jobs[i] \cap DOMAIN jobs'[i] :
              /\ jobs[i][k].status \in Terminal
                    => jobs'[i][k].status = jobs[i][k].status
              /\ Stage(jobs'[i][k].status) >= Stage(jobs[i][k].status) ]_vars

\* =========================================================================
\*                     PROPERTIES OF THE JOB MANAGER
\* =========================================================================

\* a step that is one whole collect_completed call
CollectStep == mcall'.op = "collect"

\* a step that is a repeated mark_completed(job_id, 0, ResultFileArg)
MarkedAgain(job_id) ==
    /\ MarkCompletedAs(1, job_id, 0, ResultFileArg, "ok")
    /\ jobs[1][job_id].status = "DONE"
    /\ jobs[1][job_id].execution_time = Some(0)
    /\ jobs[1][job_id].result_file = Some(ResultFileArg)

\* C16: over the poll_pending and collect_completed calls of a manager,
\* collect_completed handles only DONE records without a result_file and
\* leaves a result_file on every job it returns, no job has more than one
\* result artifact or is returned more than once, and a repeated
\* mark_completed leaves the one record of the id with the same status,
\* execution_time and result_file, in memory and in the ledger.
C16_CollectIdempotent ==
    [][ /\ \A k \in IdSet : artifacts'[k] <= 1 /\ returned'[k] <= 1
        /\ CollectStep =>
              /\ \A k \in mcall'.queried :
                    /\ k \in DOMAIN jobs[1]
                    /\ jobs[1][k].status = "DONE"
                    /\ ~Truthy(jobs[1][k].result_file)
              /\ \A j \in 1..Len(mcall'.collected) :
                    /\ Truthy(jobs'[1][mcall'.collected[j]].result_file)
                    /\ artifacts'[mcall'.collected[j]] = 1
        /\ \A k \in DOMAIN jobs[1] :
              MarkedAgain(k) =>
                  /\ DOMAIN jobs'[1] = DOMAIN jobs[1]
                  /\ jobs'[1][k].status = jobs[1][k].status
                  /\ jobs'[1][k].execution_time = jobs[1][k].execution_time
                  /\ jobs'[1][k].result_file = jobs[1][k].result_file
                  /\ Load(ledger')[k] = jobs'[1][k] ]_vars

\* a job was collected, and a later collect_completed found nothing to do
C16_Witness ==
    /\ mcall.op = "collect"
    /\ mcall.queried = {}
    /\ \E k \in DOMAIN jobs[1] :
          /\ returned[k] = 1
          /\ artifacts[k] = 1
          /\ jobs[1][k].result_file = Some(ResultPath(jobs[1][k].backend_name, k))

\* C18: in a submit_parallel call, a backend whose remote submission gave a
\* job id has a SubmissionResult with that id and submitted=True and a record
\* with that id and backend in the ledger file; a result with submitted=False
\* and an empty job id means no remote job was created for that backend.
C18_RemoteIdTracked ==
    \A k \in 1..Len(sp.results) :
        /\ sp.created[k] # "" =>
              /\ sp.results[k].submitted
              /\ sp.results[k].job_id = sp.created[k]
              /\ sp.created[k] \in DOMAIN Load(ledger)
              /\ Load(ledger)[sp.created[k]].backend_name = sp.backends[k]
        /\ (~sp.results[k].submitted /\ sp.results[k].job_id = "") =>
              sp.created[k] = ""

\* C19: when submit_parallel returns there is one SubmissionResult per
\* requested backend, in the order given; a backend whose submission raised
\* has submitted=False, an error text and no record; every backend reported
\* as submitted has a tracker record in status QUEUED, which is also in the
\* ledger file when every registration of the call was written.
C19_OneResultPerBackend ==
    [][ (sp.pc = "calling" /\ sp'.pc = "returned") =>
          /\ Len(sp'.results) = Len(sp'.backends)
          /\ \A k \in 1..Len(sp'.results) :
                /\ sp'.results[k].backend_name = sp'.backends[k]
                /\ sp'.created[k] = "" =>
                      /\ ~sp'.results[k].submitted
                      /\ sp'.results[k].job_id = ""
                      /\ sp'.results[k].error # Nothing
                /\ sp'.results[k].submitted =>
                      /\ sp'.results[k].status = "QUEUED"
                      /\ sp'.results[k].job_id \in DOMAIN jobs'[1]
                      /\ jobs'[1][sp'.results[k].job_id].status = "QUEUED"
                      /\ jobs'[1][sp'.results[k].job_id].backend_name
                            = sp'.backends[k]
          /\ DOMAIN jobs'[1] \subseteq DOMAIN remote'
          /\ (\A k \in 1..Len(sp'.results) :
                 sp'.created[k] # "" => sp'.results[k].submitted) =>
                \A k \in 1..Len(sp'.results) :
                    sp'.results[k].submitted =>
                        /\ sp'.results[k].job_id \in DOMAIN Load(ledger')
                        /\ Load(ledger')[sp'.results[k].job_id]
                              = jobs'[1][sp'.results[k].job_id] ]_vars

\* submit_parallel returned after the first backend raised and the second
\* was submitted
C19_Witness ==
    /\ sp.pc = "returned"
    /\ Len(sp.results) = 2
    /\ sp.created[1] = ""
    /\ ~sp.results[1].submitted
    /\ sp.results[2].submitted
    /\ sp.results[2].job_id \in DOMAIN jobs[1]

\* C20: while the submission to one backend has not returned, the
\* submission to a backend later in the list can begin.
C20_SubmissionsIndependent ==
    (sp.pc = "calling" /\ Len(sp.results) + 1 < Len(sp.backends))
        => ENABLED SubmitSingleCall

\* a step that is one whole poll_pending call
PollStep == mcall'.op = "poll"

\* C21: poll_pending queries exactly the records whose status is not
\* terminal.  A job whose query raised is reported as an error and its record
\* is as before; every other pending job has the remote status in its
\* record, and, when no ledger write has gone wrong, in the ledger file.
C21_PollIsolatesErrors ==
    [][ PollStep =>
          /\ mcall'.queried = { k \in DOMAIN jobs[1] : jobs[1][k].status \notin Terminal }
          /\ DOMAIN mcall'.statuses = mcall'.queried
          /\ \A k \in mcall'.queried :
                IF mcall'.statuses[k] = "ERROR: query"
                THEN jobs'[1][k] = jobs[1][k]
                ELSE /\ jobs'[1][k].status = remote[k]
                     /\ mcall'.statuses[k] \in {remote[k], "ERROR: OSError"}
          /\ faults' = 0 =>
                \A k \in mcall'.queried :
                    /\ k \in DOMAIN Load(ledger')
                    /\ Load(ledger')[k] = jobs'[1][k]
                    /\ mcall'.statuses[k] = "ERROR: query"
                          => Load(ledger')[k] = Load(ledger)[k] ]_vars

\* the query of one job raised, the other job was still polled and stored
C21_Witness ==
    /\ mcall.op = "poll"
    /\ faults = 0
    /\ \E k1, k2 \in mcall.queried :
          /\ mcall.statuses[k1] = "ERROR: query"
          /\ jobs[1][k1].status = "QUEUED"
          /\ mcall.statuses[k2] = "RUNNING"
          /\ jobs[1][k2].status = "RUNNING"
          /\ Load(ledger)[k2].status = "RUNNING"

\* =========================================================================
\*            PROPERTIES OF THE ROTATION AND THE RUNNING LOOP
\* =========================================================================

\* the entry that follows name in the rotation list (the list holds no name twice)
NextInRotation(backends, name) ==
    LET at == CHOOSE j \in 1..Len(backends) : backends[j] = name
    IN  backends[(at % Len(backends)) + 1]

\* C22 (as claimed): with a rotation list, consecutive successful beats of one
\* scheduler use consecutive entries of the list: after the beat on
\* backends[i mod n] the next one runs on backends[(i+1) mod n].
C22_ConsecutiveBeatsRotate ==
    (~config.use_simulator /\ config.backend_rotation # <<>>) =>
        \A k \in 1..(Len(results) - 1) :
            results[k + 1].backend_name =
                NextInRotation(config.backend_rotation, results[k].backend_name)

\* a step in which _get_next_backend_name made a selection: the index of the
\* running instance moved (a new instance reads its index, it selects nothing)
SelectionStep == restarts' = restarts /\ rotation_index' # rotation_index

C24_StopCheckedBeforeSleep ==
    [][ /\ (BeatStep /\ pc = "loop") => running
        /\ (pc # "sleep" /\ pc' = "sleep") => running' ]_vars

\* =========================================================================
\*                     PROPERTIES OF beats_remaining
\* =========================================================================

\* the largest integer not above n / d, d > 0
Floor(n, d) == n \div d

\* C25 (as claimed): beats_remaining(used) is
\* floor((max_monthly_seconds - used) / estimated_seconds_per_beat) for every
\* used, also above the ceiling, and a call with more used seconds never
\* returns more beats than a call with fewer.
C25_BeatsRemainingIsFloor ==
    /\ [] ( beats_left =
              Floor((config.max_monthly_seconds - used_seconds)
                        * config.estimated_seconds_per_beat.den,
                    config.estimated_seconds_per_beat.num) )
    /\ [][ used_seconds' >= used_seconds => beats_left' <= beats_left ]_vars

\* =========================================================================
\*                     PROPERTIES OF THE TASK QUEUE
\* =========================================================================

\* how many entries of a list of task dicts carry the id
CountIn(list, id) == Cardinality({ k \in 1..Len(list) : list[k].id = id })

\* in how many places of the queue directory the task is
Places(id) ==
    CountIn(pending_json, id) + CountIn(active_json, id)
        + (IF id \in DOMAIN completed_dir THEN 1 ELSE 0)

\* C30 (as claimed): after any sequence of add_task, claim_next_task,
\* complete_active_task and fail_active_task calls every task that was added is
\* in exactly one of the pending list, the active slot and the completed
\* archive, also when claim_next_task is called while a task is active.
C30_TaskConservation ==
    \A id \in added : Places(id) = 1

\* =========================================================================
\*                     PROPERTIES OF THE BEAT COUNT
\* =========================================================================

\* C28: on one scheduler beat_count is the number of beats that returned a
\* result and the length of results, the k-th successful beat, counted from 0,
\* carries beat_number k, and a tick that returns None (a dry run, a tick
\* refused by the budget, a failed tick) leaves beat_count and results as they
\* were.
C28_BeatCount ==
    /\ [] ( /\ beat_count = Len(results)
            /\ \A k \in 1..Len(results) : results[k].beat_number = k - 1 )
    /\ [][ BeatStep =>
             IF last'.outcome = "ok"
             THEN /\ beat_count' = beat_count + 1
                  /\ Len(results') = Len(results) + 1
                  /\ SubSeq(results', 1, Len(results)) = results
             ELSE /\ last'.outcome \in {"dry_run", "refused"} \cup FailedOutcomes
                  /\ beat_count' = beat_count
                  /\ results' = results ]_vars

\* the second successful beat has returned, after a beat in between that used
\* budget and then failed to persist its result
C28_Witness ==
    /\ last.outcome = "ok"
    /\ beat_count = 2
    /\ results[2].beat_number = 1
    /\ budget_used > results[1].execution_time_seconds
                      + results[2].execution_time_seconds

\* C29 (as claimed): a failure while the backend is resolved does not stick to
\* the scheduler: a tick that starts without a backend resolves one again (it
\* ends with a backend, or with a failure of the resolution itself), no tick
\* reaches the execution with the backend unset, and as long as the budget
\* admits a tick the next tick can succeed.
C29_ResolutionNotSticky ==
    /\ [][ (BeatStep /\ last'.outcome \notin {"refused", "dry_run"}) =>
             /\ backend = None =>
                   (backend' # None \/ last'.outcome \in {"connect", "backend"})
             /\ "execute" \in last'.steps => backend' # None ]_vars
    /\ [] ( (pc = "idle" /\ ~config.dry_run /\ budget_used < Ceiling)
              => ENABLED (SingleBeat /\ last'.outcome = "ok") )

\* =========================================================================
\*          PROPERTIES OF THE REGISTRY: PROBING AND BACKEND NAMES
\* =========================================================================

\* C26 (as claimed): availability is probed at every selection and not
\* remembered: the provider a select_provider or run_heartbeat_circuit call
\* selects has a working service and credential at the time of the call (the
\* simulator needs neither), whatever it answered to an earlier probe.
C26_SelectedIsUsableNow ==
    [][ call'.op \in {"select", "run"} =>
          call'.selected.name \in usable \cup {"simulator"} ]_vars

\* C27: in run_heartbeat_circuit only the first attempt is given
\* preferred_backend; every failover attempt is run with no backend name.
C27_BackendOnFirstAttemptOnly ==
    call.op = "run" =>
        /\ Len(call.backend_names) = Len(call.attempts)
        /\ \A j \in 1..Len(call.backend_names) :
              call.backend_names[j] =
                  IF j = 1 THEN call.preferred_backend ELSE None

\* a call with a backend name whose first attempt failed and that went on to
\* a second provider
C27_Witness ==
    /\ call.op = "run"
    /\ call.preferred_backend = "ibm_fez"
    /\ Len(call.attempts) >= 2
    /\ call.attempts[1][2] = FALSE
    /\ call.backend_names[1] = "ibm_fez"
    /\ call.backend_names[2] = None

====
